---------------------------- MODULE Spec2Model ----------------------------
(* A model of Encode and getExtensionFromContent of multipart.go.            *)
(*                                                                          *)
(* Text is a sequence of one-character strings, a byte array a sequence of  *)
(* numbers 0..255.  A reflected value is a record; every record of one sort *)
(* has the same fields, the ones a kind does not use holding their zero.    *)
(* The multipart writer and the host's MIME registry are the environment:   *)
(* a call of the writer may fail, and the registry is one of several tables *)
(* a host can hold.                                                         *)
EXTENDS Integers, Sequences, FiniteSets, TLC

(***************************************************************************)
(* Bounds of the model.                                                    *)
(***************************************************************************)
\* The most fields a record of the model declares.
MaxFields == 2

\* The most calls of the writer that fail in one run.
MaxFaults == 2

(***************************************************************************)
(* Text.                                                                   *)
(***************************************************************************)
\* The characters the model uses, in ascending byte order.
Ascii ==
  << "\"", "-", ".", "0", "1", "2", "3", "4", "5", "6", "7", "8", "9", ":",
     "A", "B", "C", "D", "E", "F", "G", "H", "I", "J", "K", "L", "M", "N",
     "O", "P", "Q", "R", "S", "T", "U", "V", "W", "X", "Y", "Z", "_",
     "a", "b", "c", "d", "e", "f", "g", "h", "i", "j", "k", "l", "m", "n",
     "o", "p", "q", "r", "s", "t", "u", "v", "w", "x", "y", "z", "{", "}" >>

Ord(c) == CHOOSE k \in 1..Len(Ascii) : Ascii[k] = c

Upper ==
  << "A", "B", "C", "D", "E", "F", "G", "H", "I", "J", "K", "L", "M", "N",
     "O", "P", "Q", "R", "S", "T", "U", "V", "W", "X", "Y", "Z" >>

Lower ==
  << "a", "b", "c", "d", "e", "f", "g", "h", "i", "j", "k", "l", "m", "n",
     "o", "p", "q", "r", "s", "t", "u", "v", "w", "x", "y", "z" >>

\* strings.ToLower, on ASCII text.
ToLower(s) ==
  [k \in 1..Len(s) |->
     IF \E u \in 1..Len(Upper) : Upper[u] = s[k]
       THEN Lower[CHOOSE u \in 1..Len(Upper) : Upper[u] = s[k]]
       ELSE s[k]]

\* The order of Go's strings: byte by byte, a proper prefix first.
RECURSIVE StrLess(_, _)
StrLess(s, t) ==
  IF t = <<>> THEN FALSE
  ELSE IF s = <<>> THEN TRUE
  ELSE IF Head(s) = Head(t) THEN StrLess(Tail(s), Tail(t))
  ELSE Ord(Head(s)) < Ord(Head(t))

Digits == << "0", "1", "2", "3", "4", "5", "6", "7", "8", "9" >>

\* strconv.FormatUint(n, 10).
RECURSIVE FormatUint(_)
FormatUint(n) ==
  IF n < 10 THEN << Digits[n + 1] >>
  ELSE FormatUint(n \div 10) \o << Digits[(n % 10) + 1] >>

\* strconv.FormatInt(n, 10).
FormatInt(n) == IF n < 0 THEN << "-" >> \o FormatUint(0 - n) ELSE FormatUint(n)

\* strconv.FormatBool.
FormatBool(b) == IF b THEN << "t", "r", "u", "e" >> ELSE << "f", "a", "l", "s", "e" >>

\* strconv.FormatFloat(f, 'f', -1, 64) of a float that is n tenths: the
\* shortest decimal text, no fraction when the value is whole.
FormatFloat(n) ==
  LET a == IF n < 0 THEN 0 - n ELSE n
      sign == IF n < 0 THEN << "-" >> ELSE <<>>
  IN  IF a % 10 = 0 THEN sign \o FormatUint(a \div 10)
      ELSE sign \o FormatUint(a \div 10) \o << "." >> \o << Digits[(a % 10) + 1] >>

HasPrefix(data, sig) ==
  /\ Len(data) >= Len(sig)
  /\ \A k \in 1..Len(sig) : data[k] = sig[k]


(***************************************************************************)
(* The Extension Sniffer.                                                  *)
(***************************************************************************)
SigPDF == << 37, 80, 68, 70, 45 >>
SigGIF87 == << 71, 73, 70, 56, 55, 97 >>
SigGIF89 == << 71, 73, 70, 56, 57, 97 >>
SigPNG == << 137, 80, 78, 71, 13, 10, 26, 10 >>
SigJPEG == << 255, 216, 255 >>

\* A byte that makes content binary for http.DetectContentType.
IsBinaryByte(b) ==
  \/ b <= 8
  \/ b = 11
  \/ (14 <= b /\ b <= 26)
  \/ (28 <= b /\ b <= 31)

\* http.DetectContentType, on the signatures of the formats the package
\* documents: a signature decides, then content with no binary byte is text
\* and the rest is application/octet-stream.  It always returns a type.
DetectContentType(data) ==
  IF HasPrefix(data, SigPDF) THEN "application/pdf"
  ELSE IF HasPrefix(data, SigGIF87) \/ HasPrefix(data, SigGIF89) THEN "image/gif"
  ELSE IF HasPrefix(data, SigPNG) THEN "image/png"
  ELSE IF HasPrefix(data, SigJPEG) THEN "image/jpeg"
  ELSE IF \A k \in 1..Len(data) : ~IsBinaryByte(data[k])
    THEN "text/plain; charset=utf-8"
  ELSE "application/octet-stream"

\* mime.ParseMediaType's first result: the type without its parameters.
JustType(t) == IF t = "text/plain; charset=utf-8" THEN "text/plain" ELSE t

MimeTypes ==
  { "application/pdf", "image/gif", "image/png", "image/jpeg", "text/plain",
    "application/octet-stream" }

ExtPdf == << ".", "p", "d", "f" >>
ExtGif == << ".", "g", "i", "f" >>
ExtPng == << ".", "p", "n", "g" >>
ExtJpg == << ".", "j", "p", "g" >>
ExtJpeg == << ".", "j", "p", "e", "g" >>
ExtJpe == << ".", "j", "p", "e" >>
ExtJfif == << ".", "j", "f", "i", "f" >>
ExtBin == << ".", "b", "i", "n" >>
ExtTxt == << ".", "t", "x", "t" >>

\* The table Go's mime package builds in: the host's files only add to it.
BuiltinRegistry ==
  [t \in MimeTypes |->
     CASE t = "application/pdf" -> { ExtPdf }
       [] t = "image/gif" -> { ExtGif }
       [] t = "image/png" -> { ExtPng }
       [] t = "image/jpeg" -> { ExtJpeg, ExtJpg }
       [] OTHER -> {}]

\* What a host's MIME files add to the built-in table.
HostAdditions ==
  { [jpeg |-> {}, octet |-> {}, text |-> {}],
    [jpeg |-> { ExtJpe }, octet |-> { ExtBin }, text |-> { ExtTxt }],
    [jpeg |-> { ExtJfif, ExtJpe }, octet |-> {}, text |-> { ExtTxt }] }

Registries ==
  { [t \in MimeTypes |->
       BuiltinRegistry[t] \cup
         (CASE t = "image/jpeg" -> h.jpeg
            [] t = "application/octet-stream" -> h.octet
            [] t = "text/plain" -> h.text
            [] OTHER -> {})] : h \in HostAdditions }

\* sort.Strings of a set of extensions.
RECURSIVE SortStrings(_)
SortStrings(S) ==
  IF S = {} THEN <<>>
  ELSE LET m == CHOOSE x \in S : \A y \in S \ {x} : StrLess(x, y)
       IN  << m >> \o SortStrings(S \ {m})

\* mime.ExtensionsByType: the registered extensions of the type, sorted.
\* Its error is a malformed type, which DetectContentType never returns.
ExtensionsByType(reg, t) == SortStrings(reg[JustType(t)])

getExtensionFromContent(reg, data) ==
  LET t == DetectContentType(data)
      s == ExtensionsByType(reg, t)
  IN  IF Len(s) = 0 THEN <<>>
      ELSE IF s[1] = ExtJpe THEN ExtJpg
      ELSE s[1]

\* A variant: the default the README documents.
DefaultBin == ExtBin

DefaultFileExtension == <<>>

(***************************************************************************)
(* Reflected values.                                                       *)
(***************************************************************************)
\* A field of a record: its identifier, its form and filename tags, its
\* kind and its value.  num holds an integer, or a float in tenths; elems
\* holds a slice's elements, each of kind elemKind; marshals tells whether
\* json.Marshal accepts a nested structure.
ZeroField ==
  [ name |-> <<>>, form |-> <<>>, filename |-> <<>>, kind |-> "Invalid",
    elemKind |-> "Invalid", isNil |-> FALSE, str |-> <<>>, num |-> 0,
    flag |-> FALSE, bytes |-> <<>>, elems |-> <<>>, marshals |-> TRUE ]

ZeroElem == [ str |-> <<>>, num |-> 0, flag |-> FALSE ]

StrElem(s) == [ZeroElem EXCEPT !.str = s]
NumElem(n) == [ZeroElem EXCEPT !.num = n]
FlagElem(b) == [ZeroElem EXCEPT !.flag = b]

Dash == << "-" >>
TagName == << "n" >>
TagAge == << "u", "_", "a" >>
TagAvatar == << "a", "v" >>
TagFile == << "p", ".", "j", "p", "g" >>

DataJPEG == << 255, 216, 255, 224, 0, 16, 74, 70 >>
DataPNG == << 137, 80, 78, 71, 13, 10, 26, 10 >>
DataUnknown == << 0, 1, 2, 3 >>
DataShort == << 0, 1 >>

StringFields ==
  LET f == [ZeroField EXCEPT !.name = << "N", "a", "m", "e" >>, !.kind = "String"]
  IN  { f,
        [f EXCEPT !.str = << "J", "o" >>],
        [f EXCEPT !.str = << "J", "o" >>, !.form = TagName],
        [f EXCEPT !.str = << "J", "o" >>, !.form = Dash] }

IntFields ==
  LET f == [ZeroField EXCEPT !.name = << "A", "g", "e" >>, !.kind = "Int"]
  IN  { f,
        [f EXCEPT !.num = 0 - 12],
        [f EXCEPT !.num = 30, !.form = TagAge],
        [f EXCEPT !.form = Dash] }

UintFields ==
  LET f == [ZeroField EXCEPT !.name = << "U", "I", "D" >>, !.kind = "Uint"]
  IN  { [f EXCEPT !.num = 407] }

BoolFields ==
  LET f == [ZeroField EXCEPT !.name = << "I", "s", "O", "n" >>, !.kind = "Bool"]
  IN  { f, [f EXCEPT !.flag = TRUE] }

FloatFields ==
  LET f == [ZeroField EXCEPT !.name = << "R", "a", "t", "e" >>, !.kind = "Float"]
  IN  { [f EXCEPT !.num = 0 - 25] }

BytesFields ==
  LET f == [ZeroField EXCEPT !.name = << "P", "i", "c" >>, !.kind = "Slice",
                             !.elemKind = "Uint8"]
  IN  { [f EXCEPT !.isNil = TRUE],
        [f EXCEPT !.bytes = DataJPEG],
        [f EXCEPT !.bytes = DataPNG],
        [f EXCEPT !.bytes = DataUnknown],
        [f EXCEPT !.bytes = DataShort],
        [f EXCEPT !.bytes = DataShort, !.filename = TagFile, !.form = TagAvatar],
        [f EXCEPT !.bytes = DataJPEG, !.form = Dash] }

SliceFields ==
  LET f == [ZeroField EXCEPT !.name = << "T", "a", "g", "s" >>, !.kind = "Slice"]
  IN  { [f EXCEPT !.elemKind = "String", !.isNil = TRUE],
        [f EXCEPT !.elemKind = "String",
                  !.elems = << StrElem(<< "g", "o" >>), StrElem(<< "m", "p" >>) >>],
        [f EXCEPT !.elemKind = "Int", !.elems = << NumElem(1), NumElem(0 - 2) >>],
        [f EXCEPT !.elemKind = "Uint", !.elems = << NumElem(7) >>],
        [f EXCEPT !.elemKind = "Bool", !.elems = << FlagElem(TRUE), FlagElem(FALSE) >>],
        [f EXCEPT !.elemKind = "String", !.form = Dash,
                  !.elems = << StrElem(<< "g", "o" >>) >>] }

StructFields ==
  LET f == [ZeroField EXCEPT !.name = << "I", "n", "f", "o" >>, !.kind = "Struct",
                             !.str = << "x" >>]
  IN  { f, [f EXCEPT !.marshals = FALSE], [f EXCEPT !.form = Dash] }

MapFields ==
  { [ZeroField EXCEPT !.name = << "M", "e", "t", "a" >>, !.kind = "Map"] }

Fields ==
  StringFields \cup IntFields \cup UintFields \cup BoolFields \cup FloatFields
    \cup BytesFields \cup SliceFields \cup StructFields \cup MapFields

\* A reflected value: elem holds the pointee of a non-nil pointer.
Value(k, fs, e) == [ kind |-> k, fields |-> fs, elem |-> e ]

StructValues == { Value("Struct", fs, <<>>) : fs \in UNION { [1..n -> Fields] : n \in 0..MaxFields } }

PtrTo(v) == Value("Ptr", <<>>, << v >>)

\* What Encode may be given: a structure, a pointer to one, and the values
\* that are neither (a number, a map, nil, a nil pointer, a pointer to a
\* pointer to a structure).
Requests ==
  StructValues \cup { PtrTo(v) : v \in StructValues }
    \cup { Value("Int", <<>>, <<>>), Value("Map", <<>>, <<>>),
           Value("Invalid", <<>>, <<>>), Value("Ptr", <<>>, <<>>) }
    \cup { PtrTo(PtrTo(v)) : v \in { s \in StructValues : Len(s.fields) = 0 } }

\* reflect.Value.Kind and reflect.Value.Elem.
Kind(v) == v.kind
Elem(v) == IF v.elem = <<>> THEN Value("Invalid", <<>>, <<>>) ELSE v.elem[1]

(***************************************************************************)
(* Errors and the multipart writer.                                        *)
(***************************************************************************)
NilErr == [ kind |-> "nil", id |-> 0 ]
ErrNotStruct == [ kind |-> "req must be a struct", id |-> 0 ]
ErrMarshal == [ kind |-> "marshal", id |-> 0 ]

\* The error of the n-th failed call of the writer.
WriteErr(n) == [ kind |-> "write", id |-> n ]

\* fmt.Errorf("failed to close multipart writer %w", e).
CloseErr(e) == [ kind |-> "failed to close multipart writer", id |-> e.id ]

\* multipart.NewWriter(&b): no part yet.  parts is what the buffer holds, we
\* the write error the last part keeps; faults counts the calls that failed
\* and afterFail the calls that succeeded after one had failed.
NewWriter == [ parts |-> <<>>, we |-> NilErr, faults |-> 0, afterFail |-> 0 ]

Succeeded(wr) == [wr EXCEPT !.afterFail = IF wr.faults > 0 THEN @ + 1 ELSE @]

\* A call of the writer may fail while the run has faults left.
MayFail(wr, fail) == fail => wr.faults < MaxFaults

\* Writer.CreatePart: it first closes the last part, which returns the write
\* error that part kept; then it writes the new part's header.
CreatePart(wr, name, filename, isFile, fld, idx, fail) ==
  IF wr.we # NilErr THEN [ w |-> wr, err |-> wr.we ]
  ELSE IF fail
    THEN [ w |-> [wr EXCEPT !.faults = @ + 1], err |-> WriteErr(wr.faults + 1) ]
  ELSE [ w |-> [Succeeded(wr) EXCEPT !.parts =
                  Append(@, [ name |-> name, filename |-> filename, file |-> isFile,
                              body |-> <<>>, data |-> <<>>, fld |-> fld, idx |-> idx ])],
         err |-> NilErr ]

CreateFormField(wr, name, fld, idx, fail) ==
  CreatePart(wr, name, <<>>, FALSE, fld, idx, fail)

CreateFormFile(wr, name, filename, fld, idx, fail) ==
  CreatePart(wr, name, filename, TRUE, fld, idx, fail)

\* fw.Write on the part created last: text goes to body, bytes to data.  A
\* failed write is kept by the part.
Write(wr, body, data, fail) ==
  IF fail
    THEN [ w |-> [wr EXCEPT !.faults = @ + 1, !.we = WriteErr(wr.faults + 1)],
           err |-> WriteErr(wr.faults + 1) ]
  ELSE [ w |-> [Succeeded(wr) EXCEPT !.parts[Len(wr.parts)].body = body,
                                     !.parts[Len(wr.parts)].data = data],
         err |-> NilErr ]

\* Writer.Close: closes the last part, then writes the closing boundary.
Close(wr, fail) ==
  IF wr.we # NilErr THEN [ w |-> wr, err |-> wr.we ]
  ELSE IF fail
    THEN [ w |-> [wr EXCEPT !.faults = @ + 1], err |-> WriteErr(wr.faults + 1) ]
  ELSE [ w |-> Succeeded(wr), err |-> NilErr ]

\* The pattern of every scalar case: create a form field and, when that
\* succeeded, write the text.
WriteFormField(wr, name, body, fld, cf, wf) ==
  LET c == CreateFormField(wr, name, fld, 0, cf)
  IN  IF c.err = NilErr THEN Write(c.w, body, <<>>, wf) ELSE c

(***************************************************************************)
(* Encode.                                                                 *)
(***************************************************************************)
VARIABLES
  req,       \* the argument of Encode
  registry,  \* the host's MIME registry
  pc,        \* where Encode is: start, field, elem, check, done
  v,         \* the reflected value
  i,         \* the index of the field, from 1
  j,         \* the index of the element of a slice field, from 1
  err,       \* the field's err
  w,         \* the multipart writer and its buffer
  sniffs,    \* the calls of getExtensionFromContent, in order
  ret        \* what Encode returned

vars == << req, registry, pc, v, i, j, err, w, sniffs, ret >>

NoReturn == [ buf |-> FALSE, contentType |-> "", err |-> NilErr ]
Failure(e) == [ buf |-> FALSE, contentType |-> "", err |-> e ]
Success == [ buf |-> TRUE, contentType |-> "multipart/form-data; boundary=", err |-> NilErr ]

Init ==
  /\ req \in Requests
  /\ registry \in Registries
  /\ pc = "start"
  /\ v = req
  /\ i = 0
  /\ j = 0
  /\ err = NilErr
  /\ w = NewWriter
  /\ sniffs = <<>>
  /\ ret = NoReturn

\* A variant: every pointer is followed, down to the value.
RECURSIVE DerefAll(_)
DerefAll(x) == IF Kind(x) = "Ptr" THEN DerefAll(Elem(x)) ELSE x

\* v := reflect.ValueOf(req); one pointer is followed.
Deref(x) == IF Kind(x) = "Ptr" THEN Elem(x) ELSE x

NumField(x) == Len(x.fields)
FieldAt(x, k) == x.fields[k]

\* A variant: the identifier as declared.
FieldNameAsDeclared(f) == IF f.form = <<>> THEN f.name ELSE f.form

\* The form tag, or the identifier in lower case.
FieldName(f) == IF f.form = <<>> THEN ToLower(f.name) ELSE f.form

\* A variant: no field is skipped.
SkippedNever(fieldName) == FALSE

\* if fieldName == "-" { continue }.
Skipped(fieldName) == fieldName = Dash

Start ==
  /\ pc = "start"
  /\ v' = Deref(req)
  /\ IF Kind(v') # "Struct"
       THEN /\ ret' = Failure(ErrNotStruct)
            /\ pc' = "done"
            /\ i' = i
       ELSE /\ pc' = "field"
            /\ i' = 1
            /\ ret' = ret
  /\ UNCHANGED << req, registry, j, err, w, sniffs >>

\* The loop is at a field it does not skip.
AtField ==
  /\ pc = "field"
  /\ i <= NumField(v)
  /\ ~Skipped(FieldName(FieldAt(v, i)))

SkipField ==
  /\ pc = "field"
  /\ i <= NumField(v)
  /\ Skipped(FieldName(FieldAt(v, i)))
  /\ i' = i + 1
  /\ UNCHANGED << req, registry, pc, v, j, err, w, sniffs, ret >>

\* A case of the switch ran the writer to r: the loop goes to its check of err.
Wrote(r) ==
  /\ w' = r.w
  /\ err' = r.err
  /\ pc' = "check"
  /\ UNCHANGED << req, registry, v, i, j, sniffs, ret >>

EncodeString ==
  /\ AtField
  /\ FieldAt(v, i).kind = "String"
  /\ LET f == FieldAt(v, i)
     IN  IF f.str # <<>>
           THEN \E cf, wf \in BOOLEAN :
                  /\ MayFail(w, cf) /\ MayFail(w, wf)
                  /\ Wrote(WriteFormField(w, FieldName(f), f.str, i, cf, wf))
           ELSE Wrote([ w |-> w, err |-> NilErr ])

EncodeInt ==
  /\ AtField
  /\ FieldAt(v, i).kind = "Int"
  /\ LET f == FieldAt(v, i)
     IN  \E cf, wf \in BOOLEAN :
           /\ MayFail(w, cf) /\ MayFail(w, wf)
           /\ Wrote(WriteFormField(w, FieldName(f), FormatInt(f.num), i, cf, wf))

EncodeUint ==
  /\ AtField
  /\ FieldAt(v, i).kind = "Uint"
  /\ LET f == FieldAt(v, i)
     IN  \E cf, wf \in BOOLEAN :
           /\ MayFail(w, cf) /\ MayFail(w, wf)
           /\ Wrote(WriteFormField(w, FieldName(f), FormatUint(f.num), i, cf, wf))

EncodeFloat ==
  /\ AtField
  /\ FieldAt(v, i).kind = "Float"
  /\ LET f == FieldAt(v, i)
     IN  \E cf, wf \in BOOLEAN :
           /\ MayFail(w, cf) /\ MayFail(w, wf)
           /\ Wrote(WriteFormField(w, FieldName(f), FormatFloat(f.num), i, cf, wf))

EncodeBool ==
  /\ AtField
  /\ FieldAt(v, i).kind = "Bool"
  /\ LET f == FieldAt(v, i)
     IN  \E cf, wf \in BOOLEAN :
           /\ MayFail(w, cf) /\ MayFail(w, wf)
           /\ Wrote(WriteFormField(w, FieldName(f), FormatBool(f.flag), i, cf, wf))

\* The field is a byte array that is not nil.
IsFileField(f) == f.kind = "Slice" /\ f.elemKind = "Uint8" /\ ~f.isNil

\* A variant: the filename tag is not looked at.
SniffsAlways(f) == TRUE

\* Whether the filename is generated, which takes a call of the sniffer.
SniffsContent(f) == f.filename = <<>>

\* The filename of a file part: the filename tag, or the field's name and
\* the extension found, an empty one replaced by DefaultFileExtension.
Filename(f, fieldName, found) ==
  IF ~SniffsContent(f) THEN f.filename
  ELSE fieldName \o (IF found = <<>> THEN DefaultFileExtension ELSE found)

EncodeBytes ==
  /\ AtField
  /\ IsFileField(FieldAt(v, i))
  /\ LET f == FieldAt(v, i)
         found == getExtensionFromContent(registry, f.bytes)
         filename == Filename(f, FieldName(f), found)
     IN  /\ sniffs' = IF SniffsContent(f)
                        THEN Append(sniffs, [ fld |-> i, data |-> f.bytes, ext |-> found ])
                        ELSE sniffs
         /\ \E cf, wf \in BOOLEAN :
              /\ MayFail(w, cf) /\ MayFail(w, wf)
              /\ LET c == CreateFormFile(w, FieldName(f), filename, i, 0, cf)
                     r == IF c.err = NilErr THEN Write(c.w, <<>>, f.bytes, wf) ELSE c
                 IN  /\ w' = r.w
                     /\ err' = r.err
         /\ pc' = "check"
         /\ UNCHANGED << req, registry, v, i, j, ret >>

\* Any other slice, and a nil byte array: a slice that is not nil is walked
\* element by element.
EncodeSlice ==
  /\ AtField
  /\ FieldAt(v, i).kind = "Slice"
  /\ ~IsFileField(FieldAt(v, i))
  /\ IF ~FieldAt(v, i).isNil
       THEN /\ pc' = "elem"
            /\ j' = 1
       ELSE /\ pc' = "check"
            /\ j' = j
  /\ err' = NilErr
  /\ UNCHANGED << req, registry, v, i, w, sniffs, ret >>

\* A variant: the elements taken from the end.
IndexFromEnd(f, k) == f.elems[Len(f.elems) + 1 - k]

\* field.Index(k), from 1.
Index(f, k) == f.elems[k]

\* The kinds of element the loop writes.
WritesElem(kind) == kind \in { "String", "Int", "Uint" }

ElemText(kind, e) ==
  CASE kind = "String" -> e.str
    [] kind = "Int" -> FormatInt(e.num)
    [] kind = "Uint" -> FormatUint(e.num)

\* One turn of the loop over the elements: the form field is created, and
\* then written when the element's kind is one the switch has a case for.
\* err is assigned by every turn and looked at only after the loop.
SliceElem ==
  /\ pc = "elem"
  /\ j <= Len(FieldAt(v, i).elems)
  /\ LET f == FieldAt(v, i)
         elem == Index(f, j)
     IN  \E cf, wf \in BOOLEAN :
           /\ MayFail(w, cf) /\ MayFail(w, wf)
           /\ LET c == CreateFormField(w, FieldName(f), i, j, cf)
                  r == IF c.err = NilErr /\ WritesElem(f.elemKind)
                         THEN Write(c.w, ElemText(f.elemKind, elem), <<>>, wf)
                         ELSE c
              IN  /\ w' = r.w
                  /\ err' = r.err
  /\ j' = j + 1
  /\ UNCHANGED << req, registry, pc, v, i, sniffs, ret >>

SliceExit ==
  /\ pc = "elem"
  /\ j > Len(FieldAt(v, i).elems)
  /\ pc' = "check"
  /\ UNCHANGED << req, registry, v, i, j, err, w, sniffs, ret >>

\* json.Marshal of the nested structure struct{ Address string }.
MarshalJSON(f) ==
  << "{", "\"", "A", "d", "d", "r", "e", "s", "s", "\"", ":", "\"" >> \o f.str
    \o << "\"", "}" >>

EncodeStruct ==
  /\ AtField
  /\ FieldAt(v, i).kind = "Struct"
  /\ LET f == FieldAt(v, i)
     IN  IF f.marshals
           THEN \E cf, wf \in BOOLEAN :
                  /\ MayFail(w, cf) /\ MayFail(w, wf)
                  /\ Wrote(WriteFormField(w, FieldName(f), MarshalJSON(f), i, cf, wf))
           ELSE Wrote([ w |-> w, err |-> ErrMarshal ])

\* A kind the switch has no case for.
EncodeOther ==
  /\ AtField
  /\ FieldAt(v, i).kind \notin
       { "String", "Int", "Uint", "Float", "Bool", "Slice", "Struct" }
  /\ Wrote([ w |-> w, err |-> NilErr ])

\* if err != nil { return nil, "", err }, and the loop's i++.
CheckErr ==
  /\ pc = "check"
  /\ IF err # NilErr
       THEN /\ ret' = Failure(err)
            /\ pc' = "done"
            /\ i' = i
       ELSE /\ pc' = "field"
            /\ i' = i + 1
            /\ ret' = ret
  /\ UNCHANGED << req, registry, v, j, err, w, sniffs >>

\* After the last field: w.Close(), and the return.
Finish ==
  /\ pc = "field"
  /\ i > NumField(v)
  /\ \E fail \in BOOLEAN :
       /\ MayFail(w, fail)
       /\ LET r == Close(w, fail)
          IN  /\ w' = r.w
              /\ ret' = IF r.err # NilErr THEN Failure(CloseErr(r.err)) ELSE Success
  /\ pc' = "done"
  /\ UNCHANGED << req, registry, v, i, j, err, sniffs >>

Next ==
  \/ Start
  \/ SkipField
  \/ EncodeString
  \/ EncodeInt
  \/ EncodeUint
  \/ EncodeFloat
  \/ EncodeBool
  \/ EncodeBytes
  \/ EncodeSlice
  \/ SliceElem
  \/ SliceExit
  \/ EncodeStruct
  \/ EncodeOther
  \/ CheckErr
  \/ Finish

Spec == Init /\ [][Next]_vars

(***************************************************************************)
(* What the properties below speak of.                                     *)
(***************************************************************************)
\* The declared fields of the record, once Encode has reflected it.
Declared == IF Kind(v) = "Struct" THEN v.fields ELSE <<>>

\* The parts the buffer holds that field k produced.
PartsOf(k) == SelectSeq(w.parts, LAMBDA p : p.fld = k)

\* The calls of the sniffer field k made.
SniffsOf(k) == SelectSeq(sniffs, LAMBDA c : c.fld = k)

\* The name a field is to have on the wire: its name annotation, or its
\* identifier in lower case.
WireName(f) == IF f.form # <<>> THEN f.form ELSE ToLower(f.name)

Annotated(f) == f.form # <<>>
SkipAnnotated(f) == f.form = << "-" >>

Returned == pc = "done"

\* The record is a structure, or a pointer to one.
IsRecord(x) ==
  \/ x.kind = "Struct"
  \/ x.kind = "Ptr" /\ x.elem # <<>> /\ x.elem[1].kind = "Struct"

\* Content no signature matches and that holds a binary byte.
Unrecognized(data) == data \in { << 0, 1, 2, 3 >>, << 0, 1 >> }

LooksJPEG(data) == Len(data) >= 3 /\ SubSeq(data, 1, 3) = << 255, 216, 255 >>

C2_DeclarationOrder ==
  /\ \A k, l \in 1..Len(w.parts) :
       k < l =>
         \/ w.parts[k].fld < w.parts[l].fld
         \/ /\ w.parts[k].fld = w.parts[l].fld
            /\ w.parts[k].idx < w.parts[l].idx
  /\ \A k \in 1..Len(w.parts) :
       LET p == w.parts[k]
           f == Declared[p.fld]
       IN  /\ p.name = WireName(f)
           /\ (p.idx > 0 /\ p.body # <<>>) =>
                 \/ f.elemKind = "String" /\ p.body = f.elems[p.idx].str
                 \/ f.elemKind = "Int" /\ p.body = FormatInt(f.elems[p.idx].num)
                 \/ f.elemKind = "Uint" /\ p.body = FormatUint(f.elems[p.idx].num)

\* Encode returned a part for a first field, then the two parts of
\* Tags = [go, mp], named tags, in that order.
C2_Witness ==
  /\ ret = Success
  /\ Len(w.parts) = 3
  /\ w.parts[1].fld = 1
  /\ w.parts[2].name = << "t", "a", "g", "s" >>
  /\ w.parts[3].name = << "t", "a", "g", "s" >>
  /\ w.parts[2].body = << "g", "o" >>
  /\ w.parts[3].body = << "m", "p" >>

(***************************************************************************)
(* C3.  Encode returns the error "req must be a struct", with a nil buffer *)
(* and an empty content type and without touching a field, exactly when    *)
(* its argument is neither a structure nor a pointer to one.               *)
(***************************************************************************)
C3_InvalidInput ==
  pc # "start" =>
    /\ ~IsRecord(req) => /\ Returned
                         /\ ret = Failure(ErrNotStruct)
                         /\ w = NewWriter
                         /\ i = 0
    /\ IsRecord(req) => ret.err # ErrNotStruct

\* A pointer to a pointer to a structure was refused.
C3_Witness ==
  /\ Returned
  /\ ret = Failure(ErrNotStruct)
  /\ req.kind = "Ptr"
  /\ req.elem # <<>>
  /\ req.elem[1].kind = "Ptr"

(***************************************************************************)
(* C4.  A field annotated with the skip sentinel - produces no part, takes *)
(* no call of the sniffer and is never the field an error is returned at.  *)
(***************************************************************************)
C4_SkipSentinel ==
  \A k \in 1..Len(Declared) :
    SkipAnnotated(Declared[k]) =>
      /\ PartsOf(k) = <<>>
      /\ SniffsOf(k) = <<>>
      /\ ~(i = k /\ pc \in { "elem", "check", "done" })

\* Encode succeeded on a record whose first field, a byte array with
\* content, is skipped and whose second produced a part.
C4_Witness ==
  /\ ret = Success
  /\ Len(Declared) = 2
  /\ SkipAnnotated(Declared[1])
  /\ Declared[1].elemKind = "Uint8"
  /\ Declared[1].bytes # <<>>
  /\ Len(w.parts) = 1

(***************************************************************************)
(* C5.  In what Encode returns, a text field that is not skipped has one   *)
(* part when its value is not empty and none when it is; an integer, an    *)
(* unsigned or a boolean field that is not skipped has exactly one part,   *)
(* with body 0 for zero, true and false for a boolean; the part is named   *)
(* by the name annotation, or by the identifier in lower case.             *)
(***************************************************************************)
C5_ScalarFields ==
  ret = Success =>
    \A k \in 1..Len(Declared) :
      LET f == Declared[k]
          ps == PartsOf(k)
          one == /\ Len(ps) = 1
                 /\ ~ps[1].file
                 /\ ps[1].name = (IF Annotated(f) THEN f.form ELSE ToLower(f.name))
      IN  ~SkipAnnotated(f) =>
            /\ (f.kind = "String" /\ f.str = <<>>) => ps = <<>>
            /\ (f.kind = "String" /\ f.str # <<>>) => one /\ ps[1].body = f.str
            /\ f.kind = "Int" => one /\ ps[1].body = FormatInt(f.num)
            /\ (f.kind = "Int" /\ f.num = 0) => ps[1].body = << "0" >>
            /\ f.kind = "Uint" => one /\ ps[1].body = FormatUint(f.num)
            /\ (f.kind = "Bool" /\ f.flag) => one /\ ps[1].body = << "t", "r", "u", "e" >>
            /\ (f.kind = "Bool" /\ ~f.flag) =>
                  one /\ ps[1].body = << "f", "a", "l", "s", "e" >>

\* Encode returned the single part age = 0 for Name = "" and Age = 0.
C5_Witness ==
  /\ ret = Success
  /\ Len(Declared) = 2
  /\ Declared[1].kind = "String"
  /\ Declared[1].str = <<>>
  /\ Declared[2].kind = "Int"
  /\ Len(w.parts) = 1
  /\ w.parts[1].name = << "a", "g", "e" >>
  /\ w.parts[1].body = << "0" >>

C8_UnknownIsBin ==
  \A k \in 1..Len(sniffs) :
    Unrecognized(sniffs[k].data) =>
      /\ DefaultFileExtension = << ".", "b", "i", "n" >>
      /\ (IF sniffs[k].ext = <<>> THEN DefaultFileExtension ELSE sniffs[k].ext)
           = << ".", "b", "i", "n" >>

(***************************************************************************)
(* C9.  A sequence field that is not a byte array has a part for each of   *)
(* its text, integer and unsigned elements and none for an element of any  *)
(* other kind: when no call of the writer failed, Encode returns as many   *)
(* parts for the field as it has text, integer and unsigned elements.      *)
(***************************************************************************)
C9_OtherElementsSkipped ==
  /\ \A n \in 1..Len(w.parts) :
       w.parts[n].idx > 0 =>
         Declared[w.parts[n].fld].elemKind \in { "String", "Int", "Uint" }
  /\ (ret = Success /\ w.faults = 0) =>
        \A k \in 1..Len(Declared) :
          LET f == Declared[k]
          IN  (f.kind = "Slice" /\ f.elemKind # "Uint8" /\ ~f.isNil /\ ~SkipAnnotated(f)) =>
                Len(PartsOf(k)) =
                  (IF f.elemKind \in { "String", "Int", "Uint" } THEN Len(f.elems) ELSE 0)

(***************************************************************************)
(* C10.  For content with the JPEG signature the sniffer returns .jpg,     *)
(* whatever the host's registry lists for image/jpeg, and the filename of  *)
(* the part is the field name followed by .jpg.                            *)
(***************************************************************************)
C10_JpegIsJpg ==
  \A k \in 1..Len(sniffs) :
    LooksJPEG(sniffs[k].data) =>
      /\ sniffs[k].ext = << ".", "j", "p", "g" >>
      /\ \A n \in 1..Len(w.parts) :
           w.parts[n].fld = sniffs[k].fld =>
             w.parts[n].filename =
               WireName(Declared[sniffs[k].fld]) \o << ".", "j", "p", "g" >>

=============================================================================
